---- MODULE Spec2Model ----
(***************************************************************************)
(* Model of the intake triage MCP server (intake-mcp/mcp-server/           *)
(* mcp_server.py): the configuration loader, the three rule-driven tools   *)
(* classify_intake, score_severity and route_case, and the triage_intake   *)
(* pipeline that chains them.  Every tool call reloads the configuration   *)
(* from three files, which an operator may rewrite while a request runs.   *)
(*                                                                         *)
(* Strings that are matched against each other (texts, keywords) are       *)
(* sequences of one-character strings, so that normalisation and the       *)
(* substring test are computed and not assumed.  Python dicts are TLA+     *)
(* records; d.get(k, default) is Get(d, k, default).  Python None is the   *)
(* value None.  A confidence is held in hundredths (50 is 0.5).            *)
(***************************************************************************)
EXTENDS Integers, Sequences, FiniteSets, TLC

VARIABLES files, epoch, history, pc, call, trace, frame, out

vars == <<files, epoch, history, pc, call, trace, frame, out>>

----------------------------------------------------------------------------
(* Bounds of the model *)

\* number of times the configuration files are rewritten in one behaviour
MaxWrites == 2
\* route_case is called with scores in -MaxNeg .. MaxScore
MaxScore == 11
MaxNeg == 2

----------------------------------------------------------------------------
(* Python values *)

None == "None"

Get(d, k, default) == IF k \in DOMAIN d THEN d[k] ELSE default

LowerAlnum == {"a", "b", "c", "d", "x", "1"}
Whitespace == {" "}

\* str.lower() on one character
Lower(ch) ==
  CASE ch = "A" -> "a"
    [] ch = "B" -> "b"
    [] ch = "C" -> "c"
    [] ch = "D" -> "d"
    [] OTHER -> ch

\* str.strip(): drop leading and trailing whitespace
RECURSIVE LStrip(_)
LStrip(s) ==
  IF s # <<>> /\ Head(s) \in Whitespace THEN LStrip(Tail(s)) ELSE s

RECURSIVE RStrip(_)
RStrip(s) ==
  IF s # <<>> /\ s[Len(s)] \in Whitespace
    THEN RStrip(SubSeq(s, 1, Len(s) - 1))
    ELSE s

Strip(s) == RStrip(LStrip(s))

\* re.sub(r"[^a-z0-9\s]", " ", text.lower()).strip()
normalize_text(text) ==
  Strip([i \in 1..Len(text) |->
           IF Lower(text[i]) \in LowerAlnum \cup Whitespace
             THEN Lower(text[i])
             ELSE " "])

\* Python's  kw in s  on strings
Contains(s, kw) ==
  \E i \in 0..(Len(s) - Len(kw)) : SubSeq(s, i + 1, i + Len(kw)) = kw

\* kw_norm and kw_norm in normalized
KwMatches(kw, normalized) ==
  LET kw_norm == normalize_text(kw)
  IN  kw_norm # <<>> /\ Contains(normalized, kw_norm)

\* the validation without .strip(): whitespace-only text passes
InvalidText_Mut(text) == text = <<>>

\* not isinstance(text, str) or not text.strip()
InvalidText(text) == Strip(text) = <<>>

error_response(message, code) ==
  [ok |-> FALSE,
   error |-> [code |-> code, message |-> message, details |-> None]]

TextError == error_response("Invalid input: 'text' must be a non-empty string.", 422)
ScoreError == error_response("Invalid input: 'score' must be an integer.", 422)

----------------------------------------------------------------------------
(* Configuration files and load_config *)

Tax == "taxonomy"
Sev == "severity"
Rou == "routing"
FileNames == {Tax, Sev, Rou}

\* a parsed document without any of the keys load_config looks for
EmptyDoc == [comment |-> "none"]

File(doc) == [state |-> "ok", doc |-> doc]
MissingFile == [state |-> "missing", doc |-> EmptyDoc]
MalformedFile == [state |-> "malformed", doc |-> EmptyDoc]

\* the severity_override that load_config starts from
DefaultOverride ==
  [min_score |-> 9, destination |-> "High_Priority_Queue", priority |-> "HIGH"]

DefaultRouting ==
  [default_destination |-> "General_Queue",
   severity_override |-> DefaultOverride,
   routes |-> <<>>]

\* os.path.exists(path) and the try block around the parse succeeded
Readable(f) == f.state = "ok"

load_config(fs) ==
  [taxonomy |->
     IF Readable(fs[Tax]) THEN Get(fs[Tax].doc, "taxonomy", <<>>) ELSE <<>>,
   severity_rules |->
     IF Readable(fs[Sev]) THEN Get(fs[Sev].doc, "severity_rules", <<>>) ELSE <<>>,
   routing |->
     IF Readable(fs[Rou])
       THEN [default_destination |->
               Get(fs[Rou].doc, "default_destination", "General_Queue"),
             severity_override |->
               Get(fs[Rou].doc, "severity_override", DefaultOverride),
             routes |-> Get(fs[Rou].doc, "routes", <<>>)]
       ELSE DefaultRouting]

----------------------------------------------------------------------------
(* classify_intake *)

\* scores[category] += 1; matched[category].append(kw)
\* (a dict keeps its keys in the order of their first insertion)
AddMatch(acc, category, kw) ==
  IF \E i \in 1..Len(acc) : acc[i].cat = category
    THEN LET i == CHOOSE j \in 1..Len(acc) : acc[j].cat = category
         IN  [acc EXCEPT ![i] = [cat |-> category,
                                 n |-> acc[i].n + 1,
                                 kws |-> Append(acc[i].kws, kw)]]
    ELSE Append(acc, [cat |-> category, n |-> 1, kws |-> <<kw>>])

\* for kw in entry.get("keywords", [])
RECURSIVE ScanKeywords(_, _, _, _)
ScanKeywords(acc, category, kws, normalized) ==
  IF kws = <<>> THEN acc
  ELSE ScanKeywords(IF KwMatches(Head(kws), normalized)
                      THEN AddMatch(acc, category, Head(kws))
                      ELSE acc,
                    category, Tail(kws), normalized)

\* for entry in taxonomy
RECURSIVE ScanTaxonomy(_, _, _)
ScanTaxonomy(acc, taxonomy, normalized) ==
  IF taxonomy = <<>> THEN acc
  ELSE ScanTaxonomy(ScanKeywords(acc, Get(Head(taxonomy), "id", None),
                                 Get(Head(taxonomy), "keywords", <<>>),
                                 normalized),
                    Tail(taxonomy), normalized)

\* the maximum taken with >= while scanning: the last key at the maximum
BestOf_Mut(scores) ==
  LET i == CHOOSE j \in 1..Len(scores) :
             /\ \A k \in 1..Len(scores) : scores[k].n <= scores[j].n
             /\ \A k \in (j + 1)..Len(scores) : scores[k].n < scores[j].n
  IN  scores[i]

\* max(scores, key=scores.get): the first key, in insertion order, whose
\* count no other key exceeds
BestOf(scores) ==
  LET i == CHOOSE j \in 1..Len(scores) :
             /\ \A k \in 1..Len(scores) : scores[k].n <= scores[j].n
             /\ \A k \in 1..(j - 1) : scores[k].n < scores[j].n
  IN  scores[i]

RECURSIVE SumOf(_)
SumOf(scores) ==
  IF scores = <<>> THEN 0 ELSE Head(scores).n + SumOf(Tail(scores))

\* round(n / d, 2), in hundredths; round() breaks a tie towards the even
\* digit (the ties that arise for d < 40 are exact binary fractions)
Round2(n, d) ==
  LET q == (100 * n) \div d
      r == (100 * n) % d
  IN  IF 2 * r > d THEN q + 1
      ELSE IF 2 * r < d THEN q
      ELSE IF q % 2 = 0 THEN q ELSE q + 1

\* the gate with <= in place of <
NeedsLlm_Mut(confidence) == confidence <= 50

\* confidence < 0.5
NeedsLlm(confidence) == confidence < 50

classify_intake(cfg, text) ==
  IF InvalidText(text) THEN TextError
  ELSE
    LET scores == ScanTaxonomy(<<>>, cfg.taxonomy, normalize_text(text))
    IN  IF scores = <<>>
          THEN [ok |-> TRUE, category |-> None, confidence |-> 0,
                matched_keywords |-> <<>>, method |-> "keyword",
                needs_llm |-> TRUE]
          ELSE LET best == BestOf(scores)
                   confidence == Round2(best.n, SumOf(scores))
               IN  [ok |-> TRUE, category |-> best.cat,
                    confidence |-> confidence,
                    matched_keywords |-> best.kws, method |-> "keyword",
                    needs_llm |-> NeedsLlm(confidence)]

----------------------------------------------------------------------------
(* score_severity *)

priority_order == <<"critical", "high", "medium", "low">>

\* an ordered dict is a sequence of [level, rule] items with distinct levels
HasLevel(rules, lvl) == \E i \in 1..Len(rules) : rules[i].level = lvl

InPriorityOrder(lvl) == \E i \in 1..Len(priority_order) : priority_order[i] = lvl

\* rules.get(level, {})
RuleOf(rules, lvl) ==
  IF HasLevel(rules, lvl)
    THEN rules[CHOOSE i \in 1..Len(rules) : rules[i].level = lvl].rule
    ELSE EmptyDoc

RECURSIVE LevelsOf(_)
LevelsOf(rules) ==
  IF rules = <<>> THEN <<>> ELSE <<Head(rules).level>> \o LevelsOf(Tail(rules))


\* the scan in declaration order only
ordered_levels_Mut(rules) == LevelsOf(rules)

ordered_levels(rules) ==
  LET PresentLevel(lvl) == HasLevel(rules, lvl)
      OtherLevel(lvl) == ~InPriorityOrder(lvl)
  IN  SelectSeq(priority_order, PresentLevel)
        \o SelectSeq(LevelsOf(rules), OtherLevel)

\* the first keyword of the list that matches, as a one-element sequence
RECURSIVE FirstKw(_, _)
FirstKw(kws, normalized) ==
  IF kws = <<>> THEN <<>>
  ELSE IF KwMatches(Head(kws), normalized) THEN <<Head(kws)>>
  ELSE FirstKw(Tail(kws), normalized)

\* the scan with rule.get("score", -1)
RECURSIVE ScanLevels_Mut(_, _, _)
ScanLevels_Mut(levels, rules, normalized) ==
  IF levels = <<>> THEN <<>>
  ELSE LET rule == RuleOf(rules, Head(levels))
           hit == FirstKw(Get(rule, "keywords", <<>>), normalized)
       IN  IF hit # <<>>
             THEN <<[ok |-> TRUE,
                     score |-> Get(rule, "score", 0 - 1),
                     level |-> Head(levels),
                     reason |-> <<"Matched keyword", hit[1]>>]>>
             ELSE ScanLevels_Mut(Tail(levels), rules, normalized)

\* for level in ordered_levels: ... return on the first matching keyword
RECURSIVE ScanLevels(_, _, _)
ScanLevels(levels, rules, normalized) ==
  IF levels = <<>> THEN <<>>
  ELSE LET rule == RuleOf(rules, Head(levels))
           hit == FirstKw(Get(rule, "keywords", <<>>), normalized)
       IN  IF hit # <<>>
             THEN <<[ok |-> TRUE,
                     score |-> Get(rule, "score", 0),
                     level |-> Head(levels),
                     reason |-> <<"Matched keyword", hit[1]>>]>>
             ELSE ScanLevels(Tail(levels), rules, normalized)

Escalated ==
  [ok |-> TRUE, score |-> 9, level |-> "escalated",
   reason |-> <<"Emergency category escalation">>]

DefaultSeverity ==
  [ok |-> TRUE, score |-> 2, level |-> "low",
   reason |-> <<"No severity indicators found">>]

\* the emergency escalation tested before the keyword scan
score_severity_Mut(cfg, text, category) ==
  IF InvalidText(text) THEN TextError
  ELSE
    LET rules == cfg.severity_rules
        found == ScanLevels(ordered_levels(rules), rules, normalize_text(text))
    IN  IF category = "emergency" THEN Escalated
        ELSE IF found # <<>> THEN found[1]
        ELSE DefaultSeverity

score_severity(cfg, text, category) ==
  IF InvalidText(text) THEN TextError
  ELSE
    LET rules == cfg.severity_rules
        found == ScanLevels(ordered_levels(rules), rules, normalize_text(text))
    IN  IF found # <<>> THEN found[1]
        ELSE IF category = "emergency" THEN Escalated
        ELSE DefaultSeverity

----------------------------------------------------------------------------
(* route_case *)

\* the loop over routes without its early return: the last match wins
FirstRule_Mut(routes, category) ==
  LET hits == {i \in 1..Len(routes) : Get(routes[i], "category", None) = category}
  IN  IF hits = {} THEN <<>>
      ELSE <<routes[CHOOSE i \in hits : \A j \in hits : j <= i]>>

\* the first rule of routes with rule.get("category") == category
RECURSIVE FirstRule(_, _)
FirstRule(routes, category) ==
  IF routes = <<>> THEN <<>>
  ELSE IF Get(Head(routes), "category", None) = category THEN <<Head(routes)>>
  ELSE FirstRule(Tail(routes), category)

\* the rule result with score > 7 in place of score >= 7
RuleResult_Mut(rule, score, default_destination) ==
  LET threshold == Get(rule, "threshold", 0)
      destination == Get(rule, "destination", default_destination)
  IN  IF score >= threshold
        THEN [ok |-> TRUE, destination |-> destination,
              priority |-> IF score > 7 THEN "HIGH" ELSE "NORMAL",
              status |-> "Routed via routing.json"]
        ELSE [ok |-> TRUE, destination |-> destination,
              priority |-> "LOW", status |-> "Below threshold"]

\* the two returns inside the loop over routes
RuleResult(rule, score, default_destination) ==
  LET threshold == Get(rule, "threshold", 0)
      destination == Get(rule, "destination", default_destination)
  IN  IF score >= threshold
        THEN [ok |-> TRUE, destination |-> destination,
              priority |-> IF score >= 7 THEN "HIGH" ELSE "NORMAL",
              status |-> "Routed via routing.json"]
        ELSE [ok |-> TRUE, destination |-> destination,
              priority |-> "LOW", status |-> "Below threshold"]

\* the override tested with score > min_score
route_case_Mut(cfg, category, score) ==
  IF score \notin Int THEN ScoreError
  ELSE
    LET routing == cfg.routing
        default_destination == routing.default_destination
        severity_override == routing.severity_override
        min_score == Get(severity_override, "min_score", 9)
        hit == FirstRule(routing.routes, category)
    IN  IF score > min_score
          THEN [ok |-> TRUE,
                destination |->
                  Get(severity_override, "destination", "High_Priority_Queue"),
                priority |-> Get(severity_override, "priority", "HIGH"),
                status |-> "Severity override"]
        ELSE IF hit # <<>>
          THEN RuleResult(hit[1], score, default_destination)
        ELSE [ok |-> TRUE, destination |-> default_destination,
              priority |-> "LOW", status |-> "Unknown category fallback"]

route_case(cfg, category, score) ==
  IF score \notin Int THEN ScoreError
  ELSE
    LET routing == cfg.routing
        default_destination == routing.default_destination
        severity_override == routing.severity_override
        min_score == Get(severity_override, "min_score", 9)
        hit == FirstRule(routing.routes, category)
    IN  IF score >= min_score
          THEN [ok |-> TRUE,
                destination |->
                  Get(severity_override, "destination", "High_Priority_Queue"),
                priority |-> Get(severity_override, "priority", "HIGH"),
                status |-> "Severity override"]
        ELSE IF hit # <<>>
          THEN RuleResult(hit[1], score, default_destination)
        ELSE [ok |-> TRUE, destination |-> default_destination,
              priority |-> "LOW", status |-> "Unknown category fallback"]

----------------------------------------------------------------------------
(* Inputs: texts, keywords, categories, scores and configuration documents *)

T_empty == <<>>
T_blank == <<" ">>
T_punct == <<"!">>
T_ab == <<"A", "b">>
T_a_b == <<"a", "!", "b">>
T_cd == <<" ", "c", "d">>
T_abcd == <<"a", "b", "!", "C", "d">>
T_x == <<"x", "1">>

Texts == {T_empty, T_blank, T_punct, T_ab, T_a_b, T_cd, T_abcd, T_x}

K_ab == <<"a", "b">>
K_AB == <<"A", "B">>
K_a_b == <<"a", " ", "b">>
K_b == <<"b">>
K_cd == <<"c", "d">>
K_d == <<"D", "!">>
K_punct == <<"!">>

Categories == {None, "emergency", "billing", "general", "unknown"}

Scores == (0 - MaxNeg)..MaxScore

TaxA ==
  <<[id |-> "emergency", keywords |-> <<K_ab>>],
    [id |-> "billing", keywords |-> <<K_cd>>]>>

TaxB ==
  <<[id |-> "billing", keywords |-> <<K_cd, K_d>>],
    [id |-> "emergency", keywords |-> <<K_AB, K_b>>],
    [id |-> "general", keywords |-> <<K_b, K_punct>>]>>

TaxC ==
  <<[id |-> "billing", keywords |-> <<K_b>>],
    [id |-> "emergency", keywords |-> <<K_ab, K_d>>],
    [id |-> "billing", keywords |-> <<K_a_b, K_cd>>]>>

TaxD ==
  <<[keywords |-> <<K_ab>>],
    [id |-> "general"],
    [id |-> "", keywords |-> <<K_cd, K_d>>]>>

TaxFiles ==
  {File([taxonomy |-> TaxA]), File([taxonomy |-> TaxB]),
   File([taxonomy |-> TaxC]), File([taxonomy |-> TaxD]),
   File(EmptyDoc), MissingFile, MalformedFile}

SevA ==
  <<[level |-> "low", rule |-> [score |-> 1, keywords |-> <<K_ab>>]],
    [level |-> "critical", rule |-> [score |-> 10, keywords |-> <<K_cd>>]]>>

SevB ==
  <<[level |-> "urgent", rule |-> [score |-> 8, keywords |-> <<K_b>>]],
    [level |-> "high", rule |-> [score |-> 3, keywords |-> <<K_punct, K_AB>>]],
    [level |-> "medium", rule |-> [score |-> -1, keywords |-> <<K_d>>]]>>

SevC ==
  <<[level |-> "zeta", rule |-> [score |-> 5, keywords |-> <<K_b>>]],
    [level |-> "alpha", rule |-> [score |-> 6, keywords |-> <<K_ab>>]],
    [level |-> "high", rule |-> [score |-> 7]],
    [level |-> "critical", rule |-> [keywords |-> <<K_a_b, K_cd>>]]>>

SevFiles ==
  {File([severity_rules |-> SevA]), File([severity_rules |-> SevB]),
   File([severity_rules |-> SevC]), File(EmptyDoc), MissingFile,
   MalformedFile}

RouA ==
  [default_destination |-> "Front_Desk",
   severity_override |->
     [min_score |-> 9, destination |-> "ER_Queue", priority |-> "HIGH"],
   routes |->
     <<[category |-> "billing", threshold |-> 5, destination |-> "Billing_Queue"],
       [category |-> "emergency", threshold |-> 8, destination |-> "Nurse_Queue"],
       [category |-> "billing", threshold |-> 1, destination |-> "Billing_Backup"]>>]

RouB ==
  [default_destination |-> "Help_Desk",
   routes |->
     <<[category |-> "general", destination |-> "General_Desk"],
       [category |-> "emergency", threshold |-> 3],
       [threshold |-> 4, destination |-> "Unlabelled_Queue"]>>]

RouC ==
  [severity_override |-> [min_score |-> 4],
   routes |->
     <<[category |-> "billing", threshold |-> 6, destination |-> "Billing_Queue"],
       [category |-> "emergency", threshold |-> 2, destination |-> "Nurse_Queue"]>>]

RouD ==
  [default_destination |-> "Front_Desk",
   severity_override |-> [destination |-> "Duty_Manager", priority |-> "URGENT"],
   routes |->
     <<[category |-> "emergency", threshold |-> 0 - 1, destination |-> "Nurse_Queue"],
       [category |-> "emergency", threshold |-> 9, destination |-> "ER_Queue"]>>]

RouE ==
  [default_destination |-> "Front_Desk",
   severity_override |->
     [min_score |-> 0 - 1, destination |-> "ER_Queue", priority |-> "HIGH"],
   routes |->
     <<[category |-> "billing", threshold |-> 0, destination |-> "Billing_Queue"]>>]

RouFiles ==
  {File(RouA), File(RouB), File(RouC), File(RouD), File(RouE),
   File(EmptyDoc), MissingFile, MalformedFile}

\* the contents an operator writes to a file while the server runs
WriteChoices ==
  [n \in FileNames |->
     CASE n = Tax -> {File([taxonomy |-> TaxA]), File([taxonomy |-> TaxB]),
                      File([taxonomy |-> TaxD]), MissingFile}
       [] n = Sev -> {File([severity_rules |-> SevA]),
                      File([severity_rules |-> SevB]), MalformedFile}
       [] n = Rou -> {File(RouA), File(RouB)}]

----------------------------------------------------------------------------
(* The server: one request at a time, configuration files rewritten         *)
(* underneath it                                                            *)

\* the response slot while a request is still running
Pending == [pending |-> TRUE]

\* triage_intake's local variables before its first assignment
NoFrame == [unset |-> TRUE]

\* a tool has passed its input validation and calls load_config()
Loaded(fn, args) ==
  [fn |-> fn, args |-> args, ver |-> epoch, cfg |-> load_config(files)]

\* the server is waiting for the next tool call
Ready == pc = "idle"

Init ==
  /\ files = [n \in FileNames |->
                CASE n = Tax -> File([taxonomy |-> TaxA])
                  [] n = Sev -> File([severity_rules |-> SevA])
                  [] n = Rou -> File(RouA)]
  /\ epoch = 0
  /\ history = <<files>>
  /\ pc = "idle"
  /\ call = [op |-> "none"]
  /\ trace = <<>>
  /\ frame = NoFrame
  /\ out = Pending

\* an operator replaces one configuration file
ConfigWrite(n, content) ==
  /\ epoch < MaxWrites
  /\ content # files[n]
  /\ files' = [files EXCEPT ![n] = content]
  /\ epoch' = epoch + 1
  /\ history' = Append(history, files')
  /\ UNCHANGED <<pc, call, trace, frame, out>>

ClassifyIntake(text) ==
  /\ Ready
  /\ call' = [op |-> "classify_intake", text |-> text]
  /\ trace' = IF InvalidText(text) THEN <<>>
              ELSE <<Loaded("classify_intake", <<text>>)>>
  /\ out' = classify_intake(load_config(files), text)
  /\ pc' = "done"
  /\ frame' = NoFrame
  /\ UNCHANGED <<files, epoch, history>>

ScoreSeverity(text, category) ==
  /\ Ready
  /\ call' = [op |-> "score_severity", text |-> text, category |-> category]
  /\ trace' = IF InvalidText(text) THEN <<>>
              ELSE <<Loaded("score_severity", <<text, category>>)>>
  /\ out' = score_severity(load_config(files), text, category)
  /\ pc' = "done"
  /\ frame' = NoFrame
  /\ UNCHANGED <<files, epoch, history>>

RouteCase(category, score) ==
  /\ Ready
  /\ call' = [op |-> "route_case", category |-> category, score |-> score]
  /\ trace' = IF score \notin Int THEN <<>>
              ELSE <<Loaded("route_case", <<category, score>>)>>
  /\ out' = route_case(load_config(files), category, score)
  /\ pc' = "done"
  /\ frame' = NoFrame
  /\ UNCHANGED <<files, epoch, history>>

\* route_case called with a score that is None or not an int
RouteCaseNotInt(category) ==
  /\ Ready
  /\ call' = [op |-> "route_case", category |-> category, score |-> None]
  /\ trace' = <<>>
  /\ out' = ScoreError
  /\ pc' = "done"
  /\ frame' = NoFrame
  /\ UNCHANGED <<files, epoch, history>>

\* triage_intake up to its call of classify_intake
TriageStart(text) ==
  /\ Ready
  /\ call' = [op |-> "triage_intake", text |-> text]
  /\ trace' = <<>>
  /\ IF InvalidText(text)
       THEN /\ out' = TextError
            /\ pc' = "done"
            /\ frame' = NoFrame
       ELSE /\ out' = Pending
            /\ pc' = "classify"
            /\ frame' = [text |-> text]
  /\ UNCHANGED <<files, epoch, history>>

\* classification = classify_intake(text) and the two early returns
TriageClassify ==
  /\ pc = "classify"
  /\ LET classification == classify_intake(load_config(files), frame.text)
     IN  /\ trace' = IF InvalidText(frame.text) THEN trace
                     ELSE Append(trace, Loaded("classify_intake", <<frame.text>>))
         /\ IF ~Get(classification, "ok", TRUE)
              THEN /\ out' = classification
                   /\ pc' = "done"
                   /\ frame' = frame
            ELSE IF Get(classification, "needs_llm", None) = TRUE
              THEN /\ out' = [ok |-> TRUE, needs_llm |-> TRUE,
                              message |-> "Keyword confidence low. LLM should classify category first.",
                              classification |-> classification]
                   /\ pc' = "done"
                   /\ frame' = [text |-> frame.text,
                                classification |-> classification]
            ELSE /\ out' = Pending
                 /\ pc' = "severity"
                 /\ frame' = [text |-> frame.text,
                              classification |-> classification,
                              category |-> Get(classification, "category", None)]
  /\ UNCHANGED <<files, epoch, history, call>>

\* the stage called as score_severity(text), without the category
TriageSeverity_Mut ==
  /\ pc = "severity"
  /\ LET severity == score_severity(load_config(files), frame.text, None)
     IN  /\ trace' = IF InvalidText(frame.text) THEN trace
                     ELSE Append(trace, Loaded("score_severity",
                                               <<frame.text, None>>))
         /\ IF ~Get(severity, "ok", TRUE)
              THEN /\ out' = severity
                   /\ pc' = "done"
                   /\ frame' = frame
              ELSE /\ out' = Pending
                   /\ pc' = "route"
                   /\ frame' = [text |-> frame.text,
                                classification |-> frame.classification,
                                category |-> frame.category,
                                severity |-> severity,
                                score |-> Get(severity, "score", 2)]
  /\ UNCHANGED <<files, epoch, history, call>>

\* severity = score_severity(text, category) and its early return
TriageSeverity ==
  /\ pc = "severity"
  /\ LET severity == score_severity(load_config(files), frame.text, frame.category)
     IN  /\ trace' = IF InvalidText(frame.text) THEN trace
                     ELSE Append(trace, Loaded("score_severity",
                                               <<frame.text, frame.category>>))
         /\ IF ~Get(severity, "ok", TRUE)
              THEN /\ out' = severity
                   /\ pc' = "done"
                   /\ frame' = frame
              ELSE /\ out' = Pending
                   /\ pc' = "route"
                   /\ frame' = [text |-> frame.text,
                                classification |-> frame.classification,
                                category |-> frame.category,
                                severity |-> severity,
                                score |-> Get(severity, "score", 2)]
  /\ UNCHANGED <<files, epoch, history, call>>

\* category or "general_inquiry"
OrGeneral(category) ==
  IF category = None \/ category = "" THEN "general_inquiry" ELSE category

\* the dict triage_intake returns at its end
Decision(text, classification, category, severity, score, routing) ==
  [ok |-> TRUE,
   needs_llm |-> FALSE,
   input |-> text,
   triage_summary |->
     [category |-> OrGeneral(category),
      severity_level |-> Get(severity, "level", None),
      severity_score |-> score,
      priority |-> Get(routing, "priority", None),
      destination |-> Get(routing, "destination", None),
      status |-> Get(routing, "status", None)],
   details |->
     [classification |-> classification,
      severity |-> severity,
      routing |-> routing]]

\* routing = route_case(category, score), its early return and the result
TriageRoute ==
  /\ pc = "route"
  /\ LET routing == route_case(load_config(files), frame.category, frame.score)
     IN  /\ trace' = IF frame.score \notin Int THEN trace
                     ELSE Append(trace, Loaded("route_case",
                                               <<frame.category, frame.score>>))
         /\ out' = IF ~Get(routing, "ok", TRUE) THEN routing
                   ELSE Decision(frame.text, frame.classification,
                                 frame.category, frame.severity, frame.score,
                                 routing)
         /\ pc' = "done"
         /\ frame' = frame
  /\ UNCHANGED <<files, epoch, history, call>>

Request ==
  \/ \E text \in Texts : ClassifyIntake(text)
  \/ \E text \in Texts, category \in Categories : ScoreSeverity(text, category)
  \/ \E category \in Categories, score \in Scores : RouteCase(category, score)
  \/ \E category \in Categories : RouteCaseNotInt(category)
  \/ \E text \in Texts : TriageStart(text)
  \/ TriageClassify
  \/ TriageSeverity
  \/ TriageRoute

\* the response has been sent; the server waits for the next tool call
Respond ==
  /\ pc = "done"
  /\ pc' = "idle"
  /\ call' = [op |-> "none"]
  /\ trace' = <<>>
  /\ frame' = NoFrame
  /\ out' = Pending
  /\ UNCHANGED <<files, epoch, history>>

Next ==
  \/ Request
  \/ Respond
  \/ \E n \in FileNames : \E content \in WriteChoices[n] : ConfigWrite(n, content)

Spec == Init /\ [][Next]_vars

\* the tools as functions of their arguments and of the configuration: any
\* configuration, never rewritten, and one request
InitTools ==
  /\ files \in [FileNames -> TaxFiles \cup SevFiles \cup RouFiles]
  /\ files[Tax] \in TaxFiles
  /\ files[Sev] \in SevFiles
  /\ files[Rou] \in RouFiles
  /\ epoch = 0
  /\ history = <<files>>
  /\ pc = "idle"
  /\ call = [op |-> "none"]
  /\ trace = <<>>
  /\ frame = NoFrame
  /\ out = Pending

NextTools == Request

SpecTools == InitTools /\ [][NextTools]_vars

----------------------------------------------------------------------------
(* Properties *)

\* the request op has returned
Done(op) == pc = "done" /\ call.op = op

\* text is empty or consists of whitespace only
Blank(text) == \A i \in 1..Len(text) : text[i] \in Whitespace

\* triage_intake has returned a complete local decision
Resolved == Done("triage_intake") /\ out.ok /\ ~out.needs_llm

\* triage_intake has returned the request for an external decision
Deferred == Done("triage_intake") /\ out.ok /\ out.needs_llm

\* C1: within one triage_intake invocation the classification, severity and
\* routing stages observe one and the same configuration snapshot: the
\* taxonomy, severity rules and routing config a decision was computed from
\* all belong to one version of the configuration, whatever file writes
\* interleave with the invocation.
C1_OneSnapshot ==
  Resolved =>
    \E v \in 1..Len(history) :
      LET cfg == load_config(history[v])
      IN  /\ cfg.taxonomy = trace[1].cfg.taxonomy
          /\ cfg.severity_rules = trace[2].cfg.severity_rules
          /\ cfg.routing = trace[3].cfg.routing

\* C2: for non-empty text triage_intake ends in one of two shapes decided by
\* the classifier's confidence.  At confidence >= 0.5 it has called
\* classify_intake(text), score_severity(text, category) and
\* route_case(category, score), in that order and nothing else, and returns
\* needs_llm = false with exactly those three results; at confidence < 0.5
\* it has called classify_intake only and returns needs_llm = true with the
\* classification and no severity or routing.
C2_TwoShapes ==
  (Done("triage_intake") /\ ~Blank(call.text)) =>
    /\ Len(trace) >= 1
    /\ trace[1].fn = "classify_intake"
    /\ trace[1].args = <<call.text>>
    /\ LET text == call.text
           c == classify_intake(trace[1].cfg, text)
       IN  IF c.confidence >= 50
             THEN /\ Len(trace) = 3
                  /\ trace[2].fn = "score_severity"
                  /\ trace[2].args = <<text, c.category>>
                  /\ LET sev == score_severity(trace[2].cfg, text, c.category)
                     IN  /\ trace[3].fn = "route_case"
                         /\ trace[3].args = <<c.category, sev.score>>
                         /\ LET rou == route_case(trace[3].cfg, c.category,
                                                  sev.score)
                            IN  /\ out.ok
                                /\ out.needs_llm = FALSE
                                /\ out.details.classification = c
                                /\ out.details.severity = sev
                                /\ out.details.routing = rou
                                /\ out.triage_summary.severity_level = sev.level
                                /\ out.triage_summary.severity_score = sev.score
                                /\ out.triage_summary.priority = rou.priority
                                /\ out.triage_summary.destination = rou.destination
                                /\ out.triage_summary.status = rou.status
                                /\ c.category \notin {None, ""} =>
                                     out.triage_summary.category = c.category
             ELSE /\ Len(trace) = 1
                  /\ out.ok
                  /\ out.needs_llm = TRUE
                  /\ out.classification = c
                  /\ DOMAIN out = {"ok", "needs_llm", "message", "classification"}

\* C2 witness: a resolved decision at the boundary confidence 0.5, after
\* three stage calls between which the configuration was rewritten
C2_Witness ==
  /\ Resolved
  /\ Len(trace) = 3
  /\ trace[3].ver > trace[1].ver
  /\ out.details.classification.confidence = 50

\* a tool call that passed input validation has returned
Returned(op) == Done(op) /\ trace # <<>>

\* the configuration the returned tool call loaded
Cfg == trace[1].cfg

\* routing rule i is the first, in declared order, for the category
IsFirstMatch(routes, i, category) ==
  /\ Get(routes[i], "category", None) = category
  /\ \A j \in 1..(i - 1) : Get(routes[j], "category", None) # category

\* severity_override.min_score as route_case reads it
MinScore(cfg) == Get(cfg.routing.severity_override, "min_score", 9)

\* C3 (as claimed): below the override minimum and with a routing rule for
\* the category, route_case answers with the first matching rule's
\* destination and the priority HIGH when score >= 7, else NORMAL when
\* score >= threshold, else LOW, also for thresholds above 7.
C3_SevenBeforeThreshold ==
  Returned("route_case") =>
    LET routes == Cfg.routing.routes
        score == call.score
    IN  score < MinScore(Cfg) =>
          \A i \in 1..Len(routes) :
            IsFirstMatch(routes, i, call.category) =>
              /\ out.destination =
                   Get(routes[i], "destination", Cfg.routing.default_destination)
              /\ out.priority =
                   IF score >= 7 THEN "HIGH"
                   ELSE IF score >= Get(routes[i], "threshold", 0) THEN "NORMAL"
                   ELSE "LOW"

\* C3 (amended): below the override minimum and with a routing rule for the
\* category, route_case answers with the first matching rule's destination
\* (default_destination when the rule names none) and the priority LOW when
\* score < threshold, else HIGH when score >= 7, else NORMAL.
C3_ThresholdBeforeSeven ==
  Returned("route_case") =>
    LET routes == Cfg.routing.routes
        score == call.score
    IN  score < MinScore(Cfg) =>
          \A i \in 1..Len(routes) :
            IsFirstMatch(routes, i, call.category) =>
              /\ out.destination =
                   Get(routes[i], "destination", Cfg.routing.default_destination)
              /\ out.priority =
                   IF score < Get(routes[i], "threshold", 0) THEN "LOW"
                   ELSE IF score >= 7 THEN "HIGH"
                   ELSE "NORMAL"

\* C3 witness: a score of at least 7 below a rule threshold above 7 is
\* routed with priority LOW
C3_Witness ==
  /\ Returned("route_case")
  /\ call.score < MinScore(Cfg)
  /\ call.score >= 7
  /\ \E i \in 1..Len(Cfg.routing.routes) :
       /\ IsFirstMatch(Cfg.routing.routes, i, call.category)
       /\ call.score < Get(Cfg.routing.routes[i], "threshold", 0)
  /\ out.priority = "LOW"

\* C4: whenever score >= severity_override.min_score, route_case answers
\* with the override's destination and priority and the override status,
\* whatever the category and whatever rules exist for it.
C4_OverrideFirst ==
  Returned("route_case") =>
    (call.score >= MinScore(Cfg) =>
       out = [ok |-> TRUE,
              destination |-> Get(Cfg.routing.severity_override, "destination",
                                  "High_Priority_Queue"),
              priority |-> Get(Cfg.routing.severity_override, "priority", "HIGH"),
              status |-> "Severity override"])

\* C4 witness: the override answered for a category whose own rule names
\* another destination and whose threshold the score also meets
C4_Witness ==
  /\ Returned("route_case")
  /\ call.score >= MinScore(Cfg)
  /\ out.status = "Severity override"
  /\ \E i \in 1..Len(Cfg.routing.routes) :
       /\ IsFirstMatch(Cfg.routing.routes, i, call.category)
       /\ "destination" \in DOMAIN Cfg.routing.routes[i]
       /\ Cfg.routing.routes[i].destination # out.destination
       /\ call.score >= Get(Cfg.routing.routes[i], "threshold", 0)

\* some keyword of the taxonomy matches the text
AnyTaxonomyMatch(taxonomy, text) ==
  \E i \in 1..Len(taxonomy) :
    \E k \in 1..Len(Get(taxonomy[i], "keywords", <<>>)) :
      KwMatches(taxonomy[i].keywords[k], normalize_text(text))

\* C5: every classify_intake result has a confidence in [0,1] and
\* needs_llm exactly when the confidence is below 0.5 (false at 0.5); with
\* no keyword match the confidence is 0.0, the category none and needs_llm
\* true.
C5_ConfidenceGate ==
  Returned("classify_intake") =>
    /\ out.ok
    /\ out.confidence \in 0..100
    /\ out.needs_llm <=> (out.confidence < 50)
    /\ ~AnyTaxonomyMatch(Cfg.taxonomy, call.text) =>
         /\ out.confidence = 0
         /\ out.category = None
         /\ out.needs_llm

\* C5 witness: a classification with confidence exactly 0.5, not deferred
C5_Witness ==
  /\ Returned("classify_intake")
  /\ out.confidence = 50
  /\ ~out.needs_llm

\* level i of the rules has a keyword that matches the text
LevelMatches(rules, i, text) ==
  \E k \in 1..Len(Get(rules[i].rule, "keywords", <<>>)) :
    KwMatches(rules[i].rule.keywords[k], normalize_text(text))

\* position of level i in the scan: critical, high, medium, low, then the
\* other levels as declared
Rank(rules, i) ==
  CASE rules[i].level = "critical" -> 1
    [] rules[i].level = "high" -> 2
    [] rules[i].level = "medium" -> 3
    [] rules[i].level = "low" -> 4
    [] OTHER -> 4 + i

\* level i is the first matching level of the scan
FirstLevel(rules, i, text) ==
  /\ LevelMatches(rules, i, text)
  /\ \A j \in 1..Len(rules) :
       LevelMatches(rules, j, text) => Rank(rules, i) <= Rank(rules, j)

\* C6: score_severity returns the name and configured score of the first
\* level, in the order critical, high, medium, low and then the other
\* levels as declared, that has a keyword contained in the normalized text,
\* whatever the declaration order and the scores of later matching levels.
C6_ScanOrder ==
  Returned("score_severity") =>
    \A i \in 1..Len(Cfg.severity_rules) :
      FirstLevel(Cfg.severity_rules, i, call.text) =>
        /\ out.level = Cfg.severity_rules[i].level
        /\ out.score = Get(Cfg.severity_rules[i].rule, "score", 0)

\* C6 witness: the winning level is declared after another matching level
\* with a higher configured score
C6_Witness ==
  /\ Returned("score_severity")
  /\ \E i, j \in 1..Len(Cfg.severity_rules) :
       /\ j < i
       /\ FirstLevel(Cfg.severity_rules, i, call.text)
       /\ LevelMatches(Cfg.severity_rules, j, call.text)
       /\ out.level = Cfg.severity_rules[i].level
       /\ Get(Cfg.severity_rules[j].rule, "score", 0) > out.score

\* C7: empty or whitespace-only text to classify_intake, score_severity or
\* triage_intake is answered with the error envelope of code 422 and
\* nothing else, before any stage runs; an unsuccessful triage_intake
\* response is always that envelope, no stage having run and no default
\* having been filled in.
C7_InvalidText ==
  /\ (/\ pc = "done"
      /\ call.op \in {"classify_intake", "score_severity", "triage_intake"}
      /\ Blank(call.text))
       => /\ out.ok = FALSE
          /\ DOMAIN out = {"ok", "error"}
          /\ out.error.code = 422
          /\ trace = <<>>
  /\ (Done("triage_intake") /\ ~out.ok)
       => /\ DOMAIN out = {"ok", "error"}
          /\ out.error.code = 422
          /\ Blank(call.text)
          /\ trace = <<>>

\* C7 witness: triage_intake answered a whitespace-only text with the error
C7_Witness ==
  /\ Done("triage_intake")
  /\ call.text # <<>>
  /\ Blank(call.text)
  /\ ~out.ok

\* C8 (as claimed): every successful score_severity result has a
\* non-negative integer score.
C8_ScoreNonNegative ==
  Returned("score_severity") => out.score \in Nat

\* C8 (amended): every successful score_severity result has an integer
\* score, which is non-negative unless the first matching level's
\* configured score is negative, in which case it is that configured score.
C8_ScoreNegativeOnlyIfConfigured ==
  Returned("score_severity") =>
    /\ out.score \in Int
    /\ out.score < 0 =>
         \E i \in 1..Len(Cfg.severity_rules) :
           /\ FirstLevel(Cfg.severity_rules, i, call.text)
           /\ "score" \in DOMAIN Cfg.severity_rules[i].rule
           /\ Cfg.severity_rules[i].rule.score = out.score

\* C8 witness: a level configured with a negative score matched
C8_Witness ==
  /\ Returned("score_severity")
  /\ out.ok
  /\ out.score < 0

\* C9: when no severity keyword matches, score_severity returns 9 and
\* "escalated" exactly when the category is "emergency" and otherwise 2 and
\* "low"; when a keyword matches, the escalation is not applied.
C9_EmergencyOnlyUnmatched ==
  Returned("score_severity") =>
    LET matched == \E i \in 1..Len(Cfg.severity_rules) :
                     LevelMatches(Cfg.severity_rules, i, call.text)
    IN  /\ ~matched =>
             IF call.category = "emergency"
               THEN out.score = 9 /\ out.level = "escalated"
               ELSE out.score = 2 /\ out.level = "low"
        /\ matched =>
             /\ out.level # "escalated"
             /\ out.reason[1] = "Matched keyword"

\* C9 witness: category "emergency" with a matched level scoring below 9
C9_Witness ==
  /\ Returned("score_severity")
  /\ call.category = "emergency"
  /\ \E i \in 1..Len(Cfg.severity_rules) :
       LevelMatches(Cfg.severity_rules, i, call.text)
  /\ out.score < 9

\* C10: route_case answers every category and integer score with one
\* routing result and never an error; below the override minimum the first
\* rule declared for the category decides destination and status, later
\* rules for it being ignored, and without such a rule the answer is
\* default_destination, LOW and the fallback status.
C10_TotalFirstRule ==
  Returned("route_case") =>
    LET routes == Cfg.routing.routes
        score == call.score
    IN  /\ out.ok
        /\ DOMAIN out = {"ok", "destination", "priority", "status"}
        /\ out.priority \in {"LOW", "NORMAL"} \cup
             {"HIGH", Get(Cfg.routing.severity_override, "priority", "HIGH")}
        /\ score < MinScore(Cfg) =>
             /\ \A i \in 1..Len(routes) :
                  IsFirstMatch(routes, i, call.category) =>
                    /\ out.destination =
                         Get(routes[i], "destination",
                             Cfg.routing.default_destination)
                    /\ out.status =
                         IF score < Get(routes[i], "threshold", 0)
                           THEN "Below threshold"
                           ELSE "Routed via routing.json"
             /\ (\A i \in 1..Len(routes) :
                   Get(routes[i], "category", None) # call.category) =>
                  out = [ok |-> TRUE,
                         destination |-> Cfg.routing.default_destination,
                         priority |-> "LOW",
                         status |-> "Unknown category fallback"]

\* C10 witness: a score of zero or less decided by the first of two rules
\* for the category, which name different destinations
C10_Witness ==
  /\ Returned("route_case")
  /\ call.score <= 0
  /\ call.score < MinScore(Cfg)
  /\ \E i, j \in 1..Len(Cfg.routing.routes) :
       /\ i < j
       /\ IsFirstMatch(Cfg.routing.routes, i, call.category)
       /\ Get(Cfg.routing.routes[j], "category", None) = call.category
       /\ Cfg.routing.routes[j].destination # Cfg.routing.routes[i].destination
       /\ out.destination = Cfg.routing.routes[i].destination

\* the category entry i of the taxonomy declares
IdOf(taxonomy, i) == Get(taxonomy[i], "id", None)

\* the (entry, keyword) positions of the taxonomy that match the text for
\* the category
MatchesOf(taxonomy, text, category) ==
  UNION {{<<i, k>> : k \in {k \in 1..Len(Get(taxonomy[i], "keywords", <<>>)) :
                              KwMatches(taxonomy[i].keywords[k],
                                        normalize_text(text))}} :
         i \in {i \in 1..Len(taxonomy) : IdOf(taxonomy, i) = category}}

\* the aggregate match count of the category
CountOf(taxonomy, text, category) ==
  Cardinality(MatchesOf(taxonomy, text, category))

\* the categories of the taxonomy with at least one match
MatchedIds(taxonomy, text) ==
  {c \in {IdOf(taxonomy, i) : i \in 1..Len(taxonomy)} :
     CountOf(taxonomy, text, c) > 0}

\* the first entry of the taxonomy that declares the category
DeclaredAt(taxonomy, category) ==
  CHOOSE i \in 1..Len(taxonomy) :
    /\ IdOf(taxonomy, i) = category
    /\ \A j \in 1..(i - 1) : IdOf(taxonomy, j) # category

\* the first entry of the taxonomy in which the category has a match
FirstMatchAt(taxonomy, text, category) ==
  CHOOSE i \in 1..Len(taxonomy) :
    /\ \E p \in MatchesOf(taxonomy, text, category) : p[1] = i
    /\ \A p \in MatchesOf(taxonomy, text, category) : p[1] >= i

\* conf (in hundredths) is n / d rounded to two decimal places
IsRounded(conf, n, d) ==
  /\ 2 * (100 * n - conf * d) <= d
  /\ 2 * (conf * d - 100 * n) <= d

\* the total of all categories' match counts
RECURSIVE TotalOf(_, _, _)
TotalOf(taxonomy, text, ids) ==
  IF ids = {} THEN 0
  ELSE LET c == CHOOSE x \in ids : TRUE
       IN  CountOf(taxonomy, text, c) + TotalOf(taxonomy, text, ids \ {c})

\* C11 (as claimed): when a keyword matches, classify_intake returns a
\* category with the maximal aggregate match count, among the categories
\* tied at the maximum the one declared first in the taxonomy, and as
\* confidence that count divided by the sum of all counts, rounded to two
\* decimal places.
C11_FirstDeclaredWins ==
  (Returned("classify_intake") /\ AnyTaxonomyMatch(Cfg.taxonomy, call.text)) =>
    LET tax == Cfg.taxonomy
        ids == MatchedIds(tax, call.text)
        n == CountOf(tax, call.text, out.category)
    IN  /\ out.category \in ids
        /\ \A c \in ids : CountOf(tax, call.text, c) <= n
        /\ \A c \in ids :
             CountOf(tax, call.text, c) = n =>
               DeclaredAt(tax, out.category) <= DeclaredAt(tax, c)
        /\ IsRounded(out.confidence, n, TotalOf(tax, call.text, ids))

\* C11 (amended): when a keyword matches, classify_intake returns a
\* category with the maximal aggregate match count, among the categories
\* tied at the maximum the one whose first matching keyword comes first in
\* the taxonomy, and as confidence that count divided by the sum of all
\* counts, rounded to two decimal places.
C11_FirstMatchedWins ==
  (Returned("classify_intake") /\ AnyTaxonomyMatch(Cfg.taxonomy, call.text)) =>
    LET tax == Cfg.taxonomy
        ids == MatchedIds(tax, call.text)
        n == CountOf(tax, call.text, out.category)
    IN  /\ out.category \in ids
        /\ \A c \in ids : CountOf(tax, call.text, c) <= n
        /\ \A c \in ids :
             CountOf(tax, call.text, c) = n =>
               FirstMatchAt(tax, call.text, out.category)
                 <= FirstMatchAt(tax, call.text, c)
        /\ IsRounded(out.confidence, n, TotalOf(tax, call.text, ids))

\* C11 witness: two categories tied at the maximum, and the one returned is
\* declared after the other but matched before it
C11_Witness ==
  /\ Returned("classify_intake")
  /\ AnyTaxonomyMatch(Cfg.taxonomy, call.text)
  /\ \E c \in MatchedIds(Cfg.taxonomy, call.text) :
       /\ c # out.category
       /\ CountOf(Cfg.taxonomy, call.text, c)
            = CountOf(Cfg.taxonomy, call.text, out.category)
       /\ DeclaredAt(Cfg.taxonomy, c) < DeclaredAt(Cfg.taxonomy, out.category)
       /\ FirstMatchAt(Cfg.taxonomy, call.text, out.category)
            < FirstMatchAt(Cfg.taxonomy, call.text, c)

====
